---- MODULE Spec2Model ----
(***************************************************************************)
(* Model of the asynchronous processing core of the video-processing       *)
(* backend: the Celery tasks trim_video_task and overlay_video_task        *)
(* (app/tasks/video.py), the record helpers of VideoService                *)
(* (app/services/video_service.py), the transform operations of            *)
(* FFmpegService (app/services/ffmpeg_service.py) and the process runner   *)
(* run_ffmpeg (app/utils/ffmpeg_runner.py).                                *)
(*                                                                         *)
(* Every invocation (one delivery of a task, or one call of a              *)
(* *_and_record helper) is a small process.  Its steps are the points at   *)
(* which it touches state shared with other invocations: the wall clock,   *)
(* the filesystem and the record store.  The external tool, the store and  *)
(* the clock are the environment: their outcomes are chosen                *)
(* nondeterministically.                                                   *)
(*                                                                         *)
(* Further parts, each with a specification of its own: the synchronous    *)
(* endpoints POST /overlay and POST /trim, the upload endpoint, the jobs   *)
(* table (create_job, update_job_status), the process runner and the       *)
(* drawtext escape function as pure functions, the task status query, and  *)
(* the program started with another PROCESSED_DIR.                         *)
(***************************************************************************)
EXTENDS Integers, Sequences, FiniteSets, TLC

VARIABLES
    clock,      \* the wall clock, in ticks of its resolution (datetime.utcnow / datetime.now)
    files,      \* the filesystem under processed/: path -> [size, writers]
    processed,  \* the processed_videos table, in commit order
    inv,        \* the invocations: slot -> its local state
    jobs,       \* the jobs table, in commit order
    call,       \* the application of a pure function under examination, or None
    videos,     \* the videos table, in commit order
    uploads,    \* the files under the upload directory: path -> [size]
    settings    \* the configuration read at start-up (app/config.py)

vars == <<clock, files, processed, inv, jobs, call, videos, uploads, settings>>

----------------------------------------------------------------------------
(* Bounds of the model *)

MaxInv == 1        \* invocations (task deliveries and helper calls) in a behaviour of Spec
MaxConcurrent == 2 \* invocations in a behaviour of ConcurrentSpec
MaxDeliveries == 3 \* deliveries of the one message in a behaviour of RedeliverySpec
MaxOverlays == 1   \* overlay invocations in a behaviour of OverlaySpec
MaxOperations == 2 \* invocations in a behaviour of FrameSpec
MaxUploads == 3    \* rows of the videos table in a behaviour of UploadSpec
MaxJobs == 2       \* rows of the jobs table in a behaviour of JobSpec
MaxClock == 1     \* clock ticks that pass while no external tool finishes
MaxTime == 1      \* largest start_time / end_time submitted
MaxEnd == 2       \* largest start_time / end_time of a trim checked against a duration
MaxSize == 1      \* largest size of an output file
MaxLen == 3       \* longest overlay text, in characters
MaxRuntime == 2   \* longest run of the child process, and largest timeout, in seconds

Slots == DOMAIN inv
Times == -1..MaxTime
Sizes == 0..MaxSize

None == <<>>
Some(v) == <<v>>

----------------------------------------------------------------------------
(* The fixed environment: one uploaded Video and the asset directory *)

VideoIds == {"v1"}

\* the Video the operations run against, as its upload recorded it; the probe of the
\* upload found no duration
SourceVideo == [id |-> "v1", file_path |-> "v1.mp4", duration |-> None]

NoFiles == [p \in {} |-> 0]
SourceFiles == [p \in {"v1.mp4"} |-> [size |-> 1]]

\* the defaults of Settings
DefaultSettings == [upload_dir |-> "uploads", processed_dir |-> "processed",
                    assets_dir |-> "assets"]
RequestedVideoIds == {"v1", "nosuch"}
Assets == {"logo.png", "clip.mp4"}

----------------------------------------------------------------------------
(* FFmpegService: parameter validation.  Each operator returns "ok" or the *)
(* name of the exception the code raises before the tool is launched.      *)

\* the last comparison made strict: end_time = start_time passes
_validate_time_range_strict(start_time, end_time) ==
    IF start_time < 0 THEN "ValueError"
    ELSE IF end_time = None THEN "ok"
    ELSE IF end_time[1] <= 0 THEN "ValueError"
    ELSE IF end_time[1] < start_time THEN "ValueError"
    ELSE "ok"

_validate_time_range(start_time, end_time) ==
    IF start_time < 0 THEN "ValueError"
    ELSE IF end_time = None THEN "ok"
    ELSE IF end_time[1] <= 0 THEN "ValueError"
    ELSE IF end_time[1] <= start_time THEN "ValueError"
    ELSE "ok"

\* the check of position_y left out
_validate_position_x_only(position_x, position_y) ==
    IF position_x < 0 THEN "ValueError" ELSE "ok"

_validate_position(position_x, position_y) ==
    IF position_x < 0 \/ position_y < 0 THEN "ValueError" ELSE "ok"

trim_video_validate(req) ==
    _validate_time_range(req.start_time, Some(req.end_time))

\* font_size None reaches the comparison font_size <= 0, which raises TypeError
add_text_overlay_validate(req) ==
    IF _validate_position(req.position_x, req.position_y) # "ok" THEN "ValueError"
    ELSE IF _validate_time_range(req.start_time, req.end_time) # "ok" THEN "ValueError"
    ELSE IF req.font_size = None THEN "TypeError"
    ELSE IF req.font_size[1] <= 0 THEN "ValueError"
    ELSE "ok"

add_image_overlay_validate(req) ==
    IF _validate_position(req.position_x, req.position_y) # "ok" THEN "ValueError"
    ELSE _validate_time_range(req.start_time, req.end_time)

\* the lower limit made exclusive: opacity 0.0 is rejected
add_watermark_validate_exclusive(req) ==
    IF ~(0 < req.opacity /\ req.opacity <= 10) THEN "ValueError" ELSE "ok"

\* opacity is in tenths: 0.0 <= opacity <= 1.0 is 0 <= tenths <= 10
add_watermark_validate(req) ==
    IF ~(0 <= req.opacity /\ req.opacity <= 10) THEN "ValueError" ELSE "ok"

\* 480p given the 4:3 frame
quality_settings_vga ==
    [q \in {"1080p", "720p", "480p"} |->
        CASE q = "1080p" -> [width |-> 1920, height |-> 1080, bitrate |-> "5M"]
          [] q = "720p" -> [width |-> 1280, height |-> 720, bitrate |-> "2.5M"]
          [] q = "480p" -> [width |-> 640, height |-> 480, bitrate |-> "1M"]]

quality_settings ==
    [q \in {"1080p", "720p", "480p"} |->
        CASE q = "1080p" -> [width |-> 1920, height |-> 1080, bitrate |-> "5M"]
          [] q = "720p" -> [width |-> 1280, height |-> 720, bitrate |-> "2.5M"]
          [] q = "480p" -> [width |-> 854, height |-> 480, bitrate |-> "1M"]]

\* quality_settings.get(quality) is None for an unknown label
convert_quality_validate(req) ==
    IF req.quality \notin DOMAIN quality_settings THEN "ValueError" ELSE "ok"

\* what the command line of the tool carries besides the input and the output:
\* the quality conversion scales and sets the video bitrate, the other operations
\* pass neither a scale filter nor a bitrate
ffmpeg_args(op, req) ==
    IF op = "quality"
    THEN [scale |-> <<quality_settings[req.quality].width,
                      quality_settings[req.quality].height>>,
          bitrate |-> quality_settings[req.quality].bitrate]
    ELSE [scale |-> << >>, bitrate |-> "none"]

\* overlay_and_record dispatches on overlay_type; anything but text and image raises
overlay_validate(req) ==
    IF req.overlay_type = "text" THEN add_text_overlay_validate(req)
    ELSE IF req.overlay_type = "image" THEN add_image_overlay_validate(req)
    ELSE "ValueError"

Validate(op, req) ==
    CASE op = "trim" -> trim_video_validate(req)
      [] op = "overlay" -> overlay_validate(req)
      [] op = "watermark" -> add_watermark_validate(req)
      [] op = "quality" -> convert_quality_validate(req)

----------------------------------------------------------------------------
(* The timeout each operation hands to the process runner, in seconds;     *)
(* None where the operation runs the tool with no timeout.                 *)

\* every operation run as convert_quality runs the tool: with no timeout
timeout_s_absent(op) == None

timeout_s(op) ==
    CASE op = "trim" -> Some(120)
      [] op = "overlay" -> Some(300)
      [] op = "watermark" -> Some(300)
      [] op = "quality" -> None

\* the check flag ignored: every non-zero exit code raises
run_ffmpeg_always_checked(timed_out, returncode, check) ==
    IF timed_out THEN "TimeoutExpired"
    ELSE IF returncode # 0 THEN "CalledProcessError"
    ELSE "ok"

\* run_ffmpeg / subprocess.run(check=True): what the runner signals
run_ffmpeg(timed_out, returncode, check) ==
    IF timed_out THEN "TimeoutExpired"
    ELSE IF check /\ returncode # 0 THEN "CalledProcessError"
    ELSE "ok"

\* subprocess.run(..., timeout=timeout_s): the child is killed when it runs longer
\* than the timeout; with timeout None it is waited for
TimedOut(timeout, runtime) == timeout # None /\ runtime > timeout[1]

\* run_ffmpeg as a whole: the exception raised with what it carries, or the dict
\* returned.  A child killed at the timeout has no exit code to look at.
run_ffmpeg_result(child, timeout, check) ==
    LET signal == run_ffmpeg(TimedOut(timeout, child.runtime), child.returncode, check)
    IN  IF signal = "TimeoutExpired"
        THEN [raised |-> "TimeoutExpired", timeout |-> timeout[1]]
        ELSE IF signal = "CalledProcessError"
        THEN [raised |-> "CalledProcessError", returncode |-> child.returncode,
              output |-> child.stdout, stderr |-> child.stderr]
        ELSE [raised |-> "none", stdout |-> child.stdout, stderr |-> child.stderr,
              returncode |-> child.returncode, duration_s |-> child.runtime]

----------------------------------------------------------------------------
(* Output paths: "<timestamp>_<tag>_<basename>" under processed/.  All     *)
(* invocations run against the one Video, so the basename is the same.     *)

OutputTag(op, req) ==
    CASE op = "trim" -> "trimmed"
      [] op = "overlay" -> "overlay"
      [] op = "watermark" -> "watermarked"
      [] op = "quality" -> req.quality

\* os.path.join(dir, filename)
output_path(dir, now, op, req) == [dir |-> dir, ts |-> now, tag |-> OutputTag(op, req)]

exists(fs, path) == path \in DOMAIN fs
getsize(fs, path) == fs[path].size

----------------------------------------------------------------------------
(* Requests *)

TrimRequests == [start_time : Times, end_time : Times]

BaseOverlay ==
    [overlay_type |-> "text", content |-> "hello", position_x |-> 0, position_y |-> 0,
     start_time |-> 0, end_time |-> None, font_size |-> Some(24)]

OverlayRequests ==
    {BaseOverlay,
     [BaseOverlay EXCEPT !.font_size = None],
     [BaseOverlay EXCEPT !.font_size = Some(0)],
     [BaseOverlay EXCEPT !.position_x = -1],
     [BaseOverlay EXCEPT !.position_y = -1],
     [BaseOverlay EXCEPT !.start_time = -1],
     [BaseOverlay EXCEPT !.end_time = Some(0)],
     [BaseOverlay EXCEPT !.start_time = MaxTime, !.end_time = Some(MaxTime)],
     [BaseOverlay EXCEPT !.end_time = Some(MaxTime)],
     [BaseOverlay EXCEPT !.overlay_type = "image", !.content = "logo.png", !.font_size = None],
     [BaseOverlay EXCEPT !.overlay_type = "image", !.content = "missing.png", !.font_size = None],
     [BaseOverlay EXCEPT !.overlay_type = "image", !.content = "logo.png", !.position_x = -1,
                         !.font_size = None],
     [BaseOverlay EXCEPT !.overlay_type = "video", !.content = "clip.mp4", !.font_size = None]}

WatermarkRequests == [opacity : {-1, 0, 8, 10, 11}]

QualityRequests == [quality : {"1080p", "720p", "480p", "4k"}]

Requests(op) ==
    CASE op = "trim" -> TrimRequests
      [] op = "overlay" -> OverlayRequests
      [] op = "watermark" -> WatermarkRequests
      [] op = "quality" -> QualityRequests

TaskOps == {"trim", "overlay"}
HelperOps == {"trim", "overlay", "watermark", "quality"}

----------------------------------------------------------------------------
(* Invocations *)

Idle ==
    [pc |-> "idle", entry |-> "none", op |-> "none", video_id |-> "none", req |-> None,
     path |-> None, redelivery_of |-> 0, calls |-> 0, cmd |-> None, tool |-> None,
     fault |-> "none", outcome |-> None]

\* nothing processed yet, n invocations to come
Start(n) ==
    /\ clock = 0
    /\ files = [p \in {} |-> 0]
    /\ processed = << >>
    /\ inv = [i \in 1..n |-> Idle]
    /\ jobs = << >>
    /\ call = None
    /\ videos = <<SourceVideo>>
    /\ uploads = SourceFiles
    /\ settings = DefaultSettings

Init == Start(MaxInv)

\* an except clause that catches ValueError only: anything else leaves the task
TaskCatchValueError(exc) ==
    IF exc = "ValueError"
    THEN [status |-> "error", error |-> exc, processed_video_id |-> 0]
    ELSE [status |-> "raised", error |-> exc, processed_video_id |-> 0]

\* the except clause of the tasks: every Exception becomes the error outcome
TaskCatch(exc) == [status |-> "error", error |-> exc, processed_video_id |-> 0]

\* a helper has no except clause: the exception propagates to its caller
HelperRaise(exc) == [status |-> "raised", error |-> exc, processed_video_id |-> 0]

\* a synchronous endpoint answers with an HTTP status code
HTTPException(status_code, detail) ==
    [status |-> status_code, error |-> detail, processed_video_id |-> 0]

\* an endpoint has no except clause either: the framework answers 500
Failure(entry, exc) ==
    IF entry = "task" THEN TaskCatch(exc)
    ELSE IF entry = "endpoint" THEN HTTPException("500", exc)
    ELSE HelperRaise(exc)

\* the operation returned False: the task reports it, the endpoint answers 500, the
\* helper returns False
NotOk(entry) ==
    IF entry = "task"
    THEN [status |-> "error", error |-> "failed", processed_video_id |-> 0]
    ELSE IF entry = "endpoint" THEN HTTPException("500", "failed")
    ELSE [status |-> "false", error |-> "none", processed_video_id |-> 0]

Completed(entry, id) ==
    IF entry = "task"
    THEN [status |-> "completed", error |-> "none", processed_video_id |-> id]
    ELSE IF entry = "endpoint"
    THEN [status |-> "200", error |-> "none", processed_video_id |-> id]
    ELSE [status |-> "true", error |-> "none", processed_video_id |-> 0]

Finish(i, out) == [inv EXCEPT ![i].pc = "done", ![i].outcome = Some(out)]

\* the same, noting what went wrong in the invocation (history, read by the properties only)
Fail(i, fault, out) ==
    [inv EXCEPT ![i].pc = "done", ![i].outcome = Some(out), ![i].fault = fault]

\* slots are taken in order of start
CanStart(i) ==
    /\ inv[i].pc = "idle"
    /\ \A j \in Slots : j < i => inv[j].pc # "idle"

----------------------------------------------------------------------------
(* Entry of a task: trim_video_task lines 13-24, overlay_video_task lines  *)
(* 56-92, up to the launch of the external tool.  The lookup of the Video, *)
(* the clock read that names the output file and the validation touch no   *)
(* state another invocation writes, so they are one step.                  *)

\* the existence check made for video overlays only
AssetMissingVideoOnly(op, req) ==
    /\ op = "overlay"
    /\ req.overlay_type \in {"video"}
    /\ req.content \notin Assets

AssetMissing(op, req) ==
    /\ op = "overlay"
    /\ req.overlay_type \in {"image", "video"}
    /\ req.content \notin Assets

StartTask(i, op, video_id, req, db_ok, orig) ==
    LET started == [inv[i] EXCEPT !.entry = "task", !.op = op, !.video_id = video_id,
                                  !.req = Some(req), !.redelivery_of = orig]
        \* the tasks join the literal "processed", whatever the settings say
        named == [started EXCEPT !.path = Some(output_path("processed", clock, op, req))]
        verdict == Validate(op, req)
    IN  /\ inv' = [inv EXCEPT ![i] =
               IF ~db_ok
               THEN [started EXCEPT !.pc = "done", !.fault = "store",
                                    !.outcome = Some(TaskCatch("OperationalError"))]
               ELSE IF video_id \notin VideoIds
               THEN [started EXCEPT !.pc = "done", !.fault = "not_found",
                                    !.outcome = Some([status |-> "error", error |-> "not_found",
                                                      processed_video_id |-> 0])]
               ELSE IF AssetMissing(op, req)
               THEN [named EXCEPT !.pc = "done", !.fault = "asset_not_found",
                                  !.outcome = Some([status |-> "error",
                                                    error |-> "asset_not_found",
                                                    processed_video_id |-> 0])]
               ELSE IF verdict # "ok"
               THEN [named EXCEPT !.pc = "done", !.fault = "validation",
                                  !.outcome = Some(TaskCatch(verdict))]
               ELSE [named EXCEPT !.pc = "tool", !.calls = @ + 1,
                                  !.cmd = Some(ffmpeg_args(op, req))]]
        /\ UNCHANGED <<clock, files, processed, jobs, call, videos, uploads, settings>>

\* a first delivery of a task message by the queue
Deliver(i) ==
    /\ CanStart(i)
    /\ \E op \in TaskOps, video_id \in RequestedVideoIds, db_ok \in BOOLEAN :
         \E req \in Requests(op) : StartTask(i, op, video_id, req, db_ok, 0)

\* at-least-once delivery: the message of a completed invocation is delivered again
Redeliver(i) ==
    /\ CanStart(i)
    /\ \E orig \in Slots, db_ok \in BOOLEAN :
         /\ inv[orig].entry = "task"
         /\ inv[orig].pc = "done"
         /\ inv[orig].outcome[1].status = "completed"
         /\ StartTask(i, inv[orig].op, inv[orig].video_id, inv[orig].req[1], db_ok, orig)

(* A call of trim_and_record, overlay_and_record, watermark_and_record or  *)
(* quality_and_record on the existing Video, with the output path named as *)
(* the callers name it (timestamp, tag, basename) and, for an image        *)
(* overlay, an asset the caller found to exist.                            *)
StartHelper(i, op, req) ==
    /\ ~AssetMissing(op, req)
    /\ LET named == [inv[i] EXCEPT !.entry = "helper", !.op = op, !.video_id = "v1",
                                   !.req = Some(req),
                                   !.path = Some(output_path(settings.processed_dir, clock, op,
                                                             req))]
           verdict == Validate(op, req)
       IN  inv' = [inv EXCEPT ![i] =
               IF verdict # "ok"
               THEN [named EXCEPT !.pc = "done", !.fault = "validation",
                                  !.outcome = Some(HelperRaise(verdict))]
               ELSE [named EXCEPT !.pc = "tool", !.calls = @ + 1,
                                  !.cmd = Some(ffmpeg_args(op, req))]]

HelperCall(i) ==
    /\ CanStart(i)
    /\ \E op \in HelperOps :
         \E req \in Requests(op) : StartHelper(i, op, req)
    /\ UNCHANGED <<clock, files, processed, jobs, call, videos, uploads, settings>>

(* The synchronous endpoint POST /overlay (add_overlay): the request is    *)
(* checked against the OverlayRequest schema (422), the Video is looked up *)
(* (404), the asset of an image or video overlay must exist (404), and     *)
(* overlay_and_record is called with font_size defaulted to 24.  An        *)
(* exception leaving the endpoint is answered with 500.                    *)

AnyOverlayRequests ==
    OverlayRequests \cup
        {[BaseOverlay EXCEPT !.overlay_type = "audio", !.content = "clip.mp4",
                             !.font_size = None]}

OverlayRequest_valid(req) ==
    /\ req.overlay_type \in {"text", "image", "video"}
    /\ req.position_x >= 0
    /\ req.position_y >= 0
    /\ req.start_time >= 0
    /\ req.end_time # None => req.end_time[1] > 0
    /\ req.font_size # None => req.font_size[1] > 0

add_overlay(i) ==
    /\ CanStart(i)
    /\ \E video_id \in RequestedVideoIds, db_ok \in BOOLEAN, req \in AnyOverlayRequests :
         LET started == [inv[i] EXCEPT !.entry = "endpoint", !.op = "overlay",
                                       !.video_id = video_id, !.req = Some(req)]
             args == [req EXCEPT !.font_size = IF @ = None THEN Some(24) ELSE @]
             named == [started EXCEPT !.req = Some(args),
                                      !.path = Some(output_path(settings.processed_dir, clock,
                                                                "overlay", args))]
             verdict == overlay_validate(args)
         IN  inv' = [inv EXCEPT ![i] =
                 IF ~OverlayRequest_valid(req)
                 THEN [started EXCEPT !.pc = "done", !.fault = "schema",
                                      !.outcome = Some(HTTPException("422", "schema"))]
                 ELSE IF ~db_ok
                 THEN [started EXCEPT !.pc = "done", !.fault = "store",
                                      !.outcome = Some(HTTPException("500", "OperationalError"))]
                 ELSE IF video_id \notin VideoIds
                 THEN [started EXCEPT !.pc = "done", !.fault = "not_found",
                                      !.outcome = Some(HTTPException("404", "not_found"))]
                 ELSE IF AssetMissing("overlay", req)
                 THEN [started EXCEPT !.pc = "done", !.fault = "asset_not_found",
                                      !.outcome = Some(HTTPException("404", "asset_not_found"))]
                 ELSE IF verdict # "ok"
                 THEN [named EXCEPT !.pc = "done", !.fault = "validation",
                                    !.outcome = Some(HTTPException("500", verdict))]
                 ELSE [named EXCEPT !.pc = "tool", !.calls = @ + 1,
                                    !.cmd = Some(ffmpeg_args("overlay", args))]]
    /\ UNCHANGED <<clock, files, processed, jobs, call, videos, uploads, settings>>

\* a delivery of an overlay task message, with any overlay_type a producer may send
DeliverOverlay(i) ==
    /\ CanStart(i)
    /\ \E video_id \in RequestedVideoIds, db_ok \in BOOLEAN, req \in AnyOverlayRequests :
         StartTask(i, "overlay", video_id, req, db_ok, 0)

----------------------------------------------------------------------------
(* The external tool.  It may write the output file (ffmpeg ... -y         *)
(* overwrites) and exit with any code, or keep running until the runner's  *)
(* timeout kills it.  A run of the tool takes longer than one clock tick.  *)

\* the output written into an emptied directory: every other file is gone
WriteAlone(fs, path, out, i) ==
    IF out = None THEN fs
    ELSE [p \in {path} |-> [size |-> out[1], writers |-> {i}]]

Write(fs, path, out, i) ==
    IF out = None THEN fs
    ELSE [p \in DOMAIN fs \cup {path} |->
            IF p = path
            THEN [size |-> out[1],
                  writers |-> (IF path \in DOMAIN fs THEN fs[path].writers ELSE {}) \cup {i}]
            ELSE fs[p]]

Outputs == {None} \cup {Some(s) : s \in Sizes}

\* the operation returning True without looking for the output file
AfterToolUnchecked(i, signal, fs) ==
    IF signal # "ok" THEN Fail(i, signal, Failure(inv[i].entry, signal))
    ELSE [inv EXCEPT ![i].pc = "record"]

\* lines 90-91 of ffmpeg_service.py: run_ffmpeg(..., check=True); return os.path.exists(...)
AfterTool(i, signal, fs) ==
    IF signal # "ok" THEN Fail(i, signal, Failure(inv[i].entry, signal))
    ELSE IF ~exists(fs, inv[i].path[1]) THEN Fail(i, "output_missing", NotOk(inv[i].entry))
    ELSE [inv EXCEPT ![i].pc = "record"]

\* what the tool did (history, read by the properties only)
Ran(next, i, timed_out, returncode, fs) ==
    [next EXCEPT ![i].tool = Some([timed_out |-> timed_out, returncode |-> returncode,
                                   output_exists |-> exists(fs, inv[i].path[1])])]

ToolExit(i) ==
    /\ inv[i].pc = "tool"
    /\ \E returncode \in {0, 1}, out \in Outputs :
         /\ files' = Write(files, inv[i].path[1], out, i)
         /\ inv' = Ran(AfterTool(i, run_ffmpeg(FALSE, returncode, TRUE), files'),
                       i, FALSE, returncode, files')
    /\ clock' = clock + 1
    /\ UNCHANGED <<processed, jobs, call, videos, uploads, settings>>

ToolTimeout(i) ==
    /\ inv[i].pc = "tool"
    /\ timeout_s(inv[i].op) # None
    /\ \E out \in Outputs :
         /\ files' = Write(files, inv[i].path[1], out, i)
         /\ inv' = Ran(AfterTool(i, run_ffmpeg(TRUE, 0, TRUE), files'), i, TRUE, 0, files')
    /\ clock' = clock + 1
    /\ UNCHANGED <<processed, jobs, call, videos, uploads, settings>>

----------------------------------------------------------------------------
(* VideoService.record_processed_video: build the row, add, commit,        *)
(* refresh.  The store may fail at the commit (no row) or at the refresh   *)
(* that follows it (the row is committed).                                 *)

StoreResults == {"ok", "commit_error", "refresh_error"}

NewRecord(i) ==
    [id |-> Len(processed) + 1,
     original_video_id |-> inv[i].video_id,
     file_path |-> inv[i].path[1],
     file_size |-> IF exists(files, inv[i].path[1]) THEN getsize(files, inv[i].path[1]) ELSE 0,
     processing_type |-> inv[i].op,
     processing_config |-> inv[i].req[1],
     created_at |-> clock,
     by |-> i]

\* what the caller does with the row just recorded
AfterRecord(i, id) ==
    IF (inv[i].entry = "task" /\ inv[i].op = "overlay") \/ inv[i].entry = "endpoint"
    THEN [inv EXCEPT ![i].pc = "latest"]
    ELSE Finish(i, Completed(inv[i].entry, id))

record_processed_video(i) ==
    /\ inv[i].pc = "record"
    /\ \E res \in StoreResults :
         /\ processed' = IF res = "commit_error" THEN processed
                         ELSE Append(processed, NewRecord(i))
         /\ inv' = IF res = "ok" THEN AfterRecord(i, NewRecord(i).id)
                   ELSE Fail(i, "store", Failure(inv[i].entry, "OperationalError"))
    /\ UNCHANGED <<clock, files, jobs, call, videos, uploads, settings>>

\* order_by(created_at.desc()).first(): any row of the Video with the greatest created_at
get_latest_processed_for_video(rows, video_id) ==
    {k \in 1..Len(rows) :
        /\ rows[k].original_video_id = video_id
        /\ \A m \in 1..Len(rows) :
              rows[m].original_video_id = video_id => rows[m].created_at <= rows[k].created_at}

\* overlay_video_task lines 96-97, add_overlay lines 88-89
GetLatest(i) ==
    /\ inv[i].pc = "latest"
    /\ \E db_ok \in BOOLEAN :
         LET latest == get_latest_processed_for_video(processed, inv[i].video_id)
             entry == inv[i].entry
         IN  IF ~db_ok THEN inv' = Fail(i, "store", Failure(entry, "OperationalError"))
             ELSE IF latest = {}
             THEN inv' = Fail(i, "no_row",
                              Failure(entry, IF entry = "task" THEN "AttributeError"
                                             ELSE "ValidationError"))
             ELSE \E k \in latest :
                     inv' = Finish(i, Completed(entry, processed[k].id))
    /\ UNCHANGED <<clock, files, processed, jobs, call, videos, uploads, settings>>

\* time passes
Tick ==
    /\ clock < MaxClock
    /\ clock' = clock + 1
    /\ UNCHANGED <<files, processed, inv, jobs, call, videos, uploads, settings>>

Next ==
    \/ Tick
    \/ \E i \in Slots : Deliver(i)
    \/ \E i \in Slots : HelperCall(i)
    \/ \E i \in Slots : ToolExit(i)
    \/ \E i \in Slots : ToolTimeout(i)
    \/ \E i \in Slots : record_processed_video(i)
    \/ \E i \in Slots : GetLatest(i)

Spec == Init /\ [][Next]_vars

\* The same program started with either value of PROCESSED_DIR in its environment
\* (Settings reads the field from the environment, the default is "processed")
ProcessedDirs == {"processed", "outputs"}

ConfiguredInit ==
    /\ clock = 0
    /\ files = [p \in {} |-> 0]
    /\ processed = << >>
    /\ inv = [i \in 1..MaxInv |-> Idle]
    /\ jobs = << >>
    /\ call = None
    /\ videos = <<SourceVideo>>
    /\ uploads = SourceFiles
    /\ settings \in {[DefaultSettings EXCEPT !.processed_dir = dir] : dir \in ProcessedDirs}

ConfiguredSpec == ConfiguredInit /\ [][Next]_vars

----------------------------------------------------------------------------
(* Invocations running at the same time against the one Video: the worker  *)
(* pool and the request threads take no lock.                              *)

ConcurrentInit == Start(MaxConcurrent)

ConcurrentNext ==
    \/ Tick
    \/ \E i \in Slots : Deliver(i)
    \/ \E i \in Slots : Redeliver(i)
    \/ \E i \in Slots : HelperCall(i)
    \/ \E i \in Slots : ToolExit(i)
    \/ \E i \in Slots : ToolTimeout(i)
    \/ \E i \in Slots : record_processed_video(i)
    \/ \E i \in Slots : GetLatest(i)

ConcurrentSpec == ConcurrentInit /\ [][ConcurrentNext]_vars

----------------------------------------------------------------------------
(* The tasks alone, with the scheduling the worker gives them: a worker    *)
(* runs its task's own steps, and the runner's timer fires when the tool   *)
(* is still running; nothing makes the tool exit.                          *)

TaskNext ==
    \/ Tick
    \/ \E i \in Slots : Deliver(i)
    \/ \E i \in Slots : ToolExit(i)
    \/ \E i \in Slots : ToolTimeout(i)
    \/ \E i \in Slots : record_processed_video(i)
    \/ \E i \in Slots : GetLatest(i)

FairSpec ==
    /\ Init
    /\ [][TaskNext]_vars
    /\ \A i \in 1..MaxInv : WF_vars(ToolTimeout(i))
    /\ \A i \in 1..MaxInv : WF_vars(record_processed_video(i))
    /\ \A i \in 1..MaxInv : WF_vars(GetLatest(i))

----------------------------------------------------------------------------
(* At-least-once delivery of one message: a trim task on the existing      *)
(* Video is delivered once, and every further invocation is a redelivery   *)
(* of it after it completed.                                               *)

DeliverOnce(i) ==
    /\ CanStart(i)
    /\ \A j \in Slots : inv[j].pc = "idle"
    /\ \E req \in TrimRequests :
         /\ trim_video_validate(req) = "ok"
         /\ StartTask(i, "trim", "v1", req, TRUE, 0)

RedeliveryInit == Start(MaxDeliveries)

RedeliveryNext ==
    \/ Tick
    \/ \E i \in Slots : DeliverOnce(i)
    \/ \E i \in Slots : Redeliver(i)
    \/ \E i \in Slots : ToolExit(i)
    \/ \E i \in Slots : ToolTimeout(i)
    \/ \E i \in Slots : record_processed_video(i)

RedeliverySpec == RedeliveryInit /\ [][RedeliveryNext]_vars

----------------------------------------------------------------------------
(* Operations one after another, each with a request that passes          *)
(* validation: what an operation does to the records and files that the    *)
(* operations before it left.                                              *)

NoneRunning == \A j \in Slots : inv[j].pc \in {"idle", "done"}

SampleRequests(op) ==
    CASE op = "trim" -> {[start_time |-> 0, end_time |-> MaxTime]}
      [] op = "overlay" -> {BaseOverlay}
      [] op = "watermark" -> {[opacity |-> 8]}
      [] op = "quality" -> {[quality |-> "720p"]}

DeliverSample(i) ==
    /\ CanStart(i)
    /\ NoneRunning
    /\ \E op \in TaskOps, db_ok \in BOOLEAN :
         \E req \in SampleRequests(op) : StartTask(i, op, "v1", req, db_ok, 0)

CallSample(i) ==
    /\ CanStart(i)
    /\ NoneRunning
    /\ \E op \in HelperOps :
         \E req \in SampleRequests(op) : StartHelper(i, op, req)
    /\ UNCHANGED <<clock, files, processed, jobs, call, videos, uploads, settings>>

FrameInit == Start(MaxOperations)

FrameNext ==
    \/ \E i \in Slots : DeliverSample(i)
    \/ \E i \in Slots : CallSample(i)
    \/ \E i \in Slots : ToolExit(i)
    \/ \E i \in Slots : ToolTimeout(i)
    \/ \E i \in Slots : record_processed_video(i)
    \/ \E i \in Slots : GetLatest(i)

FrameSpec == FrameInit /\ [][FrameNext]_vars

----------------------------------------------------------------------------
(* Overlays alone, submitted to the task queue or to the synchronous       *)
(* endpoint.                                                               *)

OverlayInit == Start(MaxOverlays)

OverlayNext ==
    \/ Tick
    \/ \E i \in Slots : DeliverOverlay(i)
    \/ \E i \in Slots : add_overlay(i)
    \/ \E i \in Slots : ToolExit(i)
    \/ \E i \in Slots : ToolTimeout(i)
    \/ \E i \in Slots : record_processed_video(i)
    \/ \E i \in Slots : GetLatest(i)

OverlaySpec == OverlayInit /\ [][OverlayNext]_vars

\* two overlay submissions at the same time: request threads and workers share the
\* store and take no lock
ConcurrentOverlayInit == Start(MaxConcurrent)

ConcurrentOverlaySpec == ConcurrentOverlayInit /\ [][OverlayNext]_vars

----------------------------------------------------------------------------
(* Trims alone, submitted to the task queue or to the synchronous          *)
(* endpoint, against a Video whose upload did or did not find a duration.  *)

\* the probe of the upload found no duration, 0.0, or MaxTime seconds
Durations == {None, Some(0), Some(MaxTime)}

AnyTrimRequests == [start_time : -1..MaxEnd, end_time : -1..MaxEnd]

\* TrimRequest: start_time ge=0, end_time gt=0
TrimRequest_valid(req) == req.start_time >= 0 /\ req.end_time > 0

\* db.query(Video).filter(Video.id == video_id).first()
get_video_by_id(video_id) == {k \in 1..Len(videos) : videos[k].id = video_id}

\* what POST /trim answers before it names the output file: 422 from the schema,
\* 404, 400, or "ok" when the request goes on to trim_and_record.  A duration of
\* None or 0.0 is falsy: the comparison with end_time is skipped.
trim_video_verdict(video_id, req) ==
    IF ~TrimRequest_valid(req) THEN "422"
    ELSE IF get_video_by_id(video_id) = {} THEN "404"
    ELSE LET video == videos[CHOOSE k \in get_video_by_id(video_id) : TRUE]
         IN  IF req.start_time >= req.end_time THEN "400"
             ELSE IF video.duration # None /\ video.duration[1] # 0
                     /\ req.end_time > video.duration[1] THEN "400"
             ELSE "ok"

trim_video(i) ==
    /\ CanStart(i)
    /\ \E video_id \in RequestedVideoIds, db_ok \in BOOLEAN, req \in AnyTrimRequests :
         LET started == [inv[i] EXCEPT !.entry = "endpoint", !.op = "trim",
                                       !.video_id = video_id, !.req = Some(req)]
             named == [started EXCEPT !.path = Some(output_path(settings.processed_dir, clock,
                                                                "trim", req))]
             answer == trim_video_verdict(video_id, req)
             verdict == trim_video_validate(req)
         IN  inv' = [inv EXCEPT ![i] =
                 IF answer = "422"
                 THEN [started EXCEPT !.pc = "done", !.fault = "schema",
                                      !.outcome = Some(HTTPException("422", "schema"))]
                 ELSE IF ~db_ok
                 THEN [started EXCEPT !.pc = "done", !.fault = "store",
                                      !.outcome = Some(HTTPException("500", "OperationalError"))]
                 ELSE IF answer = "404"
                 THEN [started EXCEPT !.pc = "done", !.fault = "not_found",
                                      !.outcome = Some(HTTPException("404", "not_found"))]
                 ELSE IF answer = "400"
                 THEN [started EXCEPT !.pc = "done", !.fault = "bad_request",
                                      !.outcome = Some(HTTPException("400", "bad_request"))]
                 ELSE IF verdict # "ok"
                 THEN [named EXCEPT !.pc = "done", !.fault = "validation",
                                    !.outcome = Some(HTTPException("500", verdict))]
                 ELSE [named EXCEPT !.pc = "tool", !.calls = @ + 1,
                                    !.cmd = Some(ffmpeg_args("trim", req))]]
    /\ UNCHANGED <<clock, files, processed, jobs, call, videos, uploads, settings>>

\* a trim message as POST /celery/trim queues it: CeleryTrimRequest constrains nothing
DeliverTrim(i) ==
    /\ CanStart(i)
    /\ \E video_id \in RequestedVideoIds, db_ok \in BOOLEAN, req \in AnyTrimRequests :
         StartTask(i, "trim", video_id, req, db_ok, 0)

TrimInit ==
    /\ clock = 0
    /\ files = [p \in {} |-> 0]
    /\ processed = << >>
    /\ inv = [i \in 1..MaxInv |-> Idle]
    /\ jobs = << >>
    /\ call = None
    /\ videos \in {<<[SourceVideo EXCEPT !.duration = d]>> : d \in Durations}
    /\ uploads = SourceFiles
    /\ settings = DefaultSettings

TrimNext ==
    \/ Tick
    \/ \E i \in Slots : DeliverTrim(i)
    \/ \E i \in Slots : trim_video(i)
    \/ \E i \in Slots : ToolExit(i)
    \/ \E i \in Slots : ToolTimeout(i)
    \/ \E i \in Slots : record_processed_video(i)
    \/ \E i \in Slots : GetLatest(i)

TrimSpec == TrimInit /\ [][TrimNext]_vars

----------------------------------------------------------------------------
(* run_ffmpeg on its own: one call with any child behaviour, timeout and   *)
(* check flag.                                                             *)

Children ==
    [runtime : 1..MaxRuntime, returncode : {0, 1, 255},
     stdout : {"", "out"}, stderr : {"", "err"}]

Timeouts == {None} \cup {Some(t) : t \in 1..MaxRuntime}

RunnerCalls ==
    [fn : {"run_ffmpeg"}, child : Children, timeout_s : Timeouts, check : BOOLEAN,
     result : {None}]

RunnerInit ==
    /\ clock = 0
    /\ files = [p \in {} |-> 0]
    /\ processed = << >>
    /\ inv = << >>
    /\ jobs = << >>
    /\ videos = << >>
    /\ uploads = NoFiles
    /\ settings = DefaultSettings
    /\ call \in {Some(c) : c \in RunnerCalls}

RunFfmpeg ==
    /\ call # None
    /\ call[1].fn = "run_ffmpeg"
    /\ call[1].result = None
    /\ call' = Some([call[1] EXCEPT !.result =
                   Some(run_ffmpeg_result(call[1].child, call[1].timeout_s, call[1].check))])
    /\ UNCHANGED <<clock, files, processed, inv, jobs, videos, uploads, settings>>

RunnerNext == RunFfmpeg

RunnerSpec == RunnerInit /\ [][RunnerNext]_vars

----------------------------------------------------------------------------
(* The jobs table: VideoService.create_job and update_job_status, called   *)
(* in any order with any arguments.  A commit that fails leaves the table  *)
(* as it was.                                                              *)

JobStatuses == {"pending", "processing", "completed", "failed"}
JobIds == 1..(MaxJobs + 1)

create_job(video_id, job_type, db_ok) ==
    /\ Len(jobs) < MaxJobs
    /\ jobs' = IF ~db_ok THEN jobs
               ELSE Append(jobs, [id |-> Len(jobs) + 1, video_id |-> video_id,
                                  job_type |-> job_type, status |-> "completed",
                                  progress |-> 100, result_file_path |-> None,
                                  error_message |-> None])
    /\ UNCHANGED <<clock, files, processed, inv, call, videos, uploads, settings>>

\* "if result_file_path:" and "if error_message:" skip None and the empty string
Truthy(s) == s # None /\ s[1] # ""

update_job_status(job_id, status, progress, result_file_path, error_message, db_ok) ==
    /\ jobs' = IF job_id \notin 1..Len(jobs) \/ ~db_ok THEN jobs
               ELSE [jobs EXCEPT ![job_id] =
                       [@ EXCEPT !.status = status,
                                 !.progress = IF progress # None THEN progress[1] ELSE @,
                                 !.result_file_path =
                                     IF Truthy(result_file_path) THEN result_file_path ELSE @,
                                 !.error_message =
                                     IF Truthy(error_message) THEN error_message ELSE @]]
    /\ UNCHANGED <<clock, files, processed, inv, call, videos, uploads, settings>>

JobInit == Start(0)

JobNext ==
    \/ \E db_ok \in BOOLEAN : create_job("v1", "trim", db_ok)
    \/ \E job_id \in JobIds, status \in JobStatuses, progress \in {None, Some(50)},
          result_file_path \in {None, Some(""), Some("out.mp4")},
          error_message \in {None, Some(""), Some("boom")}, db_ok \in BOOLEAN :
          update_job_status(job_id, status, progress, result_file_path, error_message, db_ok)

JobSpec == JobInit /\ [][JobNext]_vars

----------------------------------------------------------------------------
(* FFmpegService._sanitize_drawtext_text.  A text is a sequence of         *)
(* characters; str.replace(old, new) scans the text once from the left and *)
(* puts new in place of every occurrence of the character old.             *)

Backslash == "\\"
Colon == ":"
Quote == "'"
Newline == "\n"
Chars == {Backslash, Colon, Quote, Newline, "n", "a"}

RECURSIVE replace(_, _, _)
replace(text, old, new) ==
    IF text = << >> THEN << >>
    ELSE (IF Head(text) = old THEN new ELSE <<Head(text)>>) \o replace(Tail(text), old, new)

\* the same replacements with the backslash escaped last
_sanitize_drawtext_text_backslash_last(text) ==
    replace(replace(replace(replace(text,
        Colon, <<Backslash, Colon>>),
        Quote, <<Backslash, Quote>>),
        Newline, <<Backslash, "n">>),
        Backslash, <<Backslash, Backslash>>)

_sanitize_drawtext_text(text) ==
    replace(replace(replace(replace(text,
        Backslash, <<Backslash, Backslash>>),
        Colon, <<Backslash, Colon>>),
        Quote, <<Backslash, Quote>>),
        Newline, <<Backslash, "n">>)

Texts == UNION {[1..n -> Chars] : n \in 0..MaxLen}

SanitizeInit ==
    /\ clock = 0
    /\ files = [p \in {} |-> 0]
    /\ processed = << >>
    /\ inv = << >>
    /\ jobs = << >>
    /\ videos = << >>
    /\ uploads = NoFiles
    /\ settings = DefaultSettings
    /\ call \in {Some([fn |-> "_sanitize_drawtext_text", text |-> t, results |-> << >>]) :
                   t \in Texts}

\* the function applied to the text, and then once more to what it returned
Sanitize ==
    /\ call # None
    /\ call[1].fn = "_sanitize_drawtext_text"
    /\ Len(call[1].results) < 2
    /\ LET arg == IF call[1].results = << >> THEN call[1].text
                  ELSE call[1].results[Len(call[1].results)]
       IN  call' = Some([call[1] EXCEPT !.results = Append(@, _sanitize_drawtext_text(arg))])
    /\ UNCHANGED <<clock, files, processed, inv, jobs, videos, uploads, settings>>

SanitizeNext == Sanitize

SanitizeSpec == SanitizeInit /\ [][SanitizeNext]_vars

----------------------------------------------------------------------------
(* The task status query GET /celery/status/{task_id}.  The result backend *)
(* holds for a task what the worker stored when the task function ended:   *)
(* SUCCESS with the returned value, or FAILURE when an exception left the  *)
(* function; until then the task is PENDING and has no result.             *)

AsyncResult(i) ==
    IF inv[i].pc # "done" THEN [state |-> "PENDING", result |-> None]
    ELSE IF inv[i].outcome[1].status = "raised"
    THEN [state |-> "FAILURE", result |-> inv[i].outcome]
    ELSE [state |-> "SUCCESS", result |-> inv[i].outcome]

READY_STATES == {"SUCCESS", "FAILURE", "REVOKED"}

\* successful computed for every state
celery_status_eager(res) ==
    [state |-> res.state,
     successful |-> Some(res.state = "SUCCESS"),
     result |-> IF res.state \in READY_STATES THEN res.result ELSE None]

celery_status(res) ==
    [state |-> res.state,
     successful |-> IF res.state \in {"SUCCESS", "FAILURE"} THEN Some(res.state = "SUCCESS")
                    ELSE None,
     result |-> IF res.state \in READY_STATES THEN res.result ELSE None]

----------------------------------------------------------------------------
(* The upload endpoint POST /upload (upload_video): the file is saved      *)
(* under a name no other upload has, its type is sniffed, the Video row is *)
(* added, committed and refreshed; on any exception the handler removes    *)
(* the saved file and answers 400 or 500.  A probe of the file that fails  *)
(* only leaves the duration empty.                                         *)

allowed_video_types == {"video/mp4", "video/webm"}
SniffedTypes == allowed_video_types \cup {"text/plain"}

\* save_upload_file: timestamp and uuid4 make the name new
NewUploadPath == [n |-> Len(videos) + 1]

upload_video(too_large, mime_type, size, duration, store) ==
    LET file_path == NewUploadPath
        video == [id |-> Len(videos) + 1, file_path |-> file_path, file_size |-> size,
                  mime_type |-> mime_type, duration |-> duration]
        saved == [p \in DOMAIN uploads \cup {file_path} |->
                     IF p = file_path THEN [size |-> size] ELSE uploads[p]]
        status == IF too_large THEN "413"
                  ELSE IF mime_type \notin allowed_video_types THEN "400"
                  ELSE IF store # "ok" THEN "500"
                  ELSE "200"
    IN  /\ Len(videos) < MaxUploads
        /\ videos' = IF ~too_large /\ mime_type \in allowed_video_types
                         /\ store # "commit_error"
                      THEN Append(videos, video)
                      ELSE videos
        /\ uploads' = IF status = "200" THEN saved ELSE uploads
        /\ call' = Some([fn |-> "upload_video", status |-> status, file_path |-> file_path])
        /\ UNCHANGED <<clock, files, processed, inv, jobs, settings>>

UploadInit ==
    /\ clock = 0
    /\ files = [p \in {} |-> 0]
    /\ processed = << >>
    /\ inv = << >>
    /\ jobs = << >>
    /\ call = None
    /\ videos = << >>
    /\ uploads = NoFiles
    /\ settings = DefaultSettings

UploadNext ==
    \E too_large \in BOOLEAN, mime_type \in SniffedTypes, size \in 1..MaxSize,
       duration \in {None, Some(MaxTime)}, store \in StoreResults :
        upload_video(too_large, mime_type, size, duration, store)

UploadSpec == UploadInit /\ [][UploadNext]_vars

----------------------------------------------------------------------------
(* Properties *)

Done(i) == inv[i].pc = "done"
Out(i) == inv[i].outcome[1]
IsTask(i) == inv[i].entry = "task"
RecordsBy(i) == {k \in 1..Len(processed) : processed[k].by = i}

\* C1: every task invocation that ends, ends by returning an outcome: "completed", or
\* {status: "error", error: <message>} whenever anything failed in it (Video not
\* found, store error, validation error, missing asset, tool exit code, tool timeout,
\* missing output); no exception leaves the task.
C1_NoExceptionCrossesTaskBoundary ==
    \A i \in Slots :
        (IsTask(i) /\ Done(i)) =>
            /\ Out(i).status \in {"completed", "error"}
            /\ (Out(i).status = "error") = (inv[i].fault # "none")
            /\ Out(i).status = "error" => Out(i).error # "none"

C1_Witness ==
    \E i \in Slots :
        /\ IsTask(i) /\ Done(i)
        /\ inv[i].fault = "TimeoutExpired"
        /\ Out(i).status = "error"

\* C2 (as claimed): a task invocation that ended with an error outcome created no
\* ProcessedVideo record.
C2_ErrorOutcomeCreatedNoRecord ==
    \A i \in Slots :
        (IsTask(i) /\ Done(i) /\ Out(i).status = "error") => RecordsBy(i) = {}

\* C3 (as claimed): the processed_video_id of a completed task invocation names the
\* ProcessedVideo record that this invocation created.
C3_CompletedNamesOwnRecord ==
    \A i \in Slots :
        (IsTask(i) /\ Done(i) /\ Out(i).status = "completed") =>
            Out(i).processed_video_id \in RecordsBy(i)

\* the tool exited with code zero and wrote a non-empty output file for
\* invocation i
ToolSucceeded(i) ==
    /\ inv[i].tool # None
    /\ ~inv[i].tool[1].timed_out
    /\ inv[i].tool[1].returncode = 0
    /\ i \in files[inv[i].path[1]].writers
    /\ files[inv[i].path[1]].size >= 1

\* C4 (as claimed): two invocations against the same Video for which the tool
\* succeeded and which both ended successfully left two records with different
\* file_path values.
C4_DistinctStoredPaths ==
    \A i, j \in Slots :
        (/\ i # j
         /\ Done(i) /\ inv[i].fault = "none" /\ ToolSucceeded(i)
         /\ Done(j) /\ inv[j].fault = "none" /\ ToolSucceeded(j)) =>
            \A k \in RecordsBy(i), m \in RecordsBy(j) :
                /\ k # m
                /\ processed[k].file_path # processed[m].file_path

\* C5 (as claimed): a redelivered run of a completed task that completes made a new
\* record under a new output path, and every output file was written by exactly one
\* invocation.
C5_RedeliveryWritesFreshFile ==
    /\ \A j \in Slots :
          (inv[j].redelivery_of # 0 /\ Done(j) /\ Out(j).status = "completed") =>
              /\ inv[j].path # inv[inv[j].redelivery_of].path
              /\ Out(j).processed_video_id # Out(inv[j].redelivery_of).processed_video_id
    /\ \A p \in DOMAIN files : Cardinality(files[p].writers) = 1

\* C6: every started task invocation ends, also when the tool never exits by itself;
\* an invocation whose tool ran into the timeout ended with an error outcome, created
\* no record and invoked the tool once.
C6_TimeoutEndsTheTask ==
    /\ \A i \in 1..MaxInv : (IsTask(i) /\ ~Done(i)) ~> Done(i)
    /\ [](\A i \in Slots :
            (IsTask(i) /\ inv[i].tool # None /\ inv[i].tool[1].timed_out) =>
                /\ Done(i)
                /\ Out(i).status = "error"
                /\ RecordsBy(i) = {}
                /\ inv[i].calls = 1)

C6_Witness ==
    \E i \in Slots :
        /\ IsTask(i) /\ Done(i)
        /\ inv[i].tool # None /\ inv[i].tool[1].timed_out
        /\ inv[i].op = "trim"

\* C7: when the tool exited with code zero and the declared output path did not exist
\* afterwards, the operation is reported as failed (the task returns an error outcome,
\* the helper returns False) and the invocation created no record.
ExitZeroNoOutput(i) ==
    /\ inv[i].tool # None
    /\ ~inv[i].tool[1].timed_out
    /\ inv[i].tool[1].returncode = 0
    /\ ~inv[i].tool[1].output_exists

C7_MissingOutputIsFailure ==
    \A i \in Slots :
        ExitZeroNoOutput(i) =>
            /\ Done(i)
            /\ Out(i) = NotOk(inv[i].entry)
            /\ Out(i).status \in {"error", "false"}
            /\ RecordsBy(i) = {}

C7_Witness ==
    \E i \in Slots :
        /\ inv[i].entry = "helper" /\ inv[i].op = "quality"
        /\ ExitZeroNoOutput(i) /\ Done(i) /\ Out(i).status = "false"

\* C8 (as claimed): every ProcessedVideo record has file_size >= 1.
C8_RecordedFileNonEmpty ==
    \A k \in 1..Len(processed) : processed[k].file_size >= 1

\* C9: a trim with start >= end or start < 0 fails before the tool is invoked: the
\* invocation ended, invoked the tool zero times and created no record; the task
\* returned an error outcome, the helper raised the validation error.
BadTrim(i) ==
    /\ inv[i].op = "trim"
    /\ (inv[i].req[1].start_time >= inv[i].req[1].end_time \/ inv[i].req[1].start_time < 0)

C9_BadTrimNeverReachesTool ==
    \A i \in Slots :
        BadTrim(i) =>
            /\ Done(i)
            /\ inv[i].calls = 0
            /\ inv[i].tool = None
            /\ RecordsBy(i) = {}
            /\ IsTask(i) => Out(i).status = "error"
            /\ ~IsTask(i) => (Out(i).status = "raised" /\ Out(i).error = "ValueError")

C9_Witness ==
    \E i \in Slots :
        /\ IsTask(i) /\ BadTrim(i) /\ inv[i].fault = "validation"
        /\ inv[i].req[1].start_time = inv[i].req[1].end_time /\ inv[i].req[1].start_time > 0

\* C10: a watermark with opacity outside [0,1] fails with the validation error, invokes
\* the tool zero times and watermark_and_record creates no record; every opacity in
\* [0,1], 0 and 1 included, passes validation and reaches the tool.
C10_OpacityRange ==
    \A i \in Slots :
        inv[i].op = "watermark" =>
            IF inv[i].req[1].opacity < 0 \/ inv[i].req[1].opacity > 10
            THEN /\ Done(i)
                 /\ Out(i) = HelperRaise("ValueError")
                 /\ inv[i].calls = 0
                 /\ RecordsBy(i) = {}
            ELSE /\ inv[i].fault # "validation"
                 /\ inv[i].calls = 1

C10_Witness ==
    \E i \in Slots :
        /\ inv[i].op = "watermark" /\ inv[i].req[1].opacity = 11 /\ Done(i)
        /\ inv[i].fault = "validation"

\* C11: an image overlay whose asset does not exist under the assets directory ends
\* at once with a not-found outcome (the task returns the error outcome, the endpoint
\* answers 404), with no invocation of the tool and no record created.
MissingImage(i) ==
    /\ inv[i].op = "overlay"
    /\ inv[i].entry \in {"task", "endpoint"}
    /\ inv[i].video_id \in VideoIds
    /\ inv[i].req[1].overlay_type = "image"
    /\ inv[i].req[1].content \notin Assets
    /\ inv[i].fault # "store"

C11_MissingAssetIsNotFound ==
    \A i \in Slots :
        MissingImage(i) =>
            /\ Done(i)
            /\ inv[i].fault = "asset_not_found"
            /\ Out(i).status = (IF IsTask(i) THEN "error" ELSE "404")
            /\ Out(i).error = "asset_not_found"
            /\ inv[i].calls = 0
            /\ inv[i].tool = None
            /\ RecordsBy(i) = {}

C11_Witness ==
    \E i \in Slots :
        /\ MissingImage(i) /\ inv[i].entry = "endpoint" /\ Out(i).status = "404"

Successful(i) == Done(i) /\ Out(i).status \in {"completed", "true", "200"}
Quiescent == \A i \in Slots : inv[i].pc \in {"idle", "done"}

\* every successful invocation created exactly one record, and that record names the
\* Video, the operation kind and the parameters of the invocation
SuccessMadeItsRecord ==
    \A i \in Slots :
        Successful(i) =>
            /\ Cardinality(RecordsBy(i)) = 1
            /\ \A k \in RecordsBy(i) :
                  /\ processed[k].original_video_id = inv[i].video_id
                  /\ processed[k].processing_type = inv[i].op
                  /\ processed[k].processing_config = inv[i].req[1]

\* C12 (as claimed): every successful invocation created exactly one record naming its
\* Video, its operation kind and its parameters, and once no invocation is running the
\* number of ProcessedVideo records equals the number of successful invocations.
C12_RecordsMatchSuccesses ==
    /\ SuccessMadeItsRecord
    /\ Quiescent => Len(processed) = Cardinality({i \in Slots : Successful(i)})

\* C13: the result of run_ffmpeg is determined by (timed out, exit code, check): a
\* child that exceeds the timeout gives the timeout error, which is not the failed-exit
\* error; otherwise a non-zero exit code with check set gives the failed-exit error
\* carrying the exit code, stdout and stderr; otherwise (exit code 0, or check not set)
\* the dict of stdout, stderr, return code and duration is returned and nothing raised.
RunnerReturned ==
    call # None /\ call[1].fn = "run_ffmpeg" /\ call[1].result # None

C13_RunnerResult ==
    RunnerReturned =>
        LET c == call[1].child
            r == call[1].result[1]
            late == call[1].timeout_s # None /\ c.runtime > call[1].timeout_s[1]
        IN  IF late
            THEN r.raised = "TimeoutExpired" /\ r.raised # "CalledProcessError"
            ELSE IF c.returncode # 0 /\ call[1].check
            THEN /\ r.raised = "CalledProcessError"
                 /\ r.returncode = c.returncode
                 /\ r.output = c.stdout
                 /\ r.stderr = c.stderr
            ELSE /\ r.raised = "none"
                 /\ r.stdout = c.stdout
                 /\ r.stderr = c.stderr
                 /\ r.returncode = c.returncode
                 /\ r.duration_s = c.runtime

C13_Witness ==
    /\ RunnerReturned
    /\ call[1].child.returncode = 255
    /\ ~call[1].check
    /\ call[1].result[1].raised = "none"
    /\ call[1].result[1].returncode = 255

\* C14 (as claimed): a Job is created with status pending, and a call changes the
\* status of a Job only from pending to processing or from processing to completed or
\* failed; the status of a completed or failed Job never changes.
JobTransitions ==
    {<<"pending", "processing">>, <<"processing", "completed">>, <<"processing", "failed">>}

C14_JobLifecycle ==
    [][\A k \in 1..Len(jobs') :
          IF k > Len(jobs) THEN jobs'[k].status = "pending"
          ELSE \/ jobs'[k].status = jobs[k].status
               \/ <<jobs[k].status, jobs'[k].status>> \in JobTransitions]_vars

\* C15 (as claimed): every completed Job has a result_file_path and every failed Job
\* has an error_message.
C15_TerminalJobCarriesResult ==
    \A k \in 1..Len(jobs) :
        /\ jobs[k].status = "completed" => jobs[k].result_file_path # None
        /\ jobs[k].status = "failed" => jobs[k].error_message # None

Sanitized(n) ==
    call # None /\ call[1].fn = "_sanitize_drawtext_text" /\ Len(call[1].results) >= n

\* C16 (as claimed): escaping an escaped text changes nothing:
\* _sanitize_drawtext_text(_sanitize_drawtext_text(t)) = _sanitize_drawtext_text(t).
C16_SanitizeIdempotent ==
    Sanitized(2) => call[1].results[2] = call[1].results[1]

\* the image of one character under the escape map
CharImage(c) ==
    CASE c = Backslash -> <<Backslash, Backslash>>
      [] c = Colon -> <<Backslash, Colon>>
      [] c = Quote -> <<Backslash, Quote>>
      [] c = Newline -> <<Backslash, "n">>
      [] OTHER -> <<c>>

RECURSIVE Image(_)
Image(t) == IF t = << >> THEN << >> ELSE CharImage(Head(t)) \o Image(Tail(t))

\* read from the left, every backslash escapes the character after it, and no colon,
\* quote or newline stands unescaped
RECURSIVE WellEscaped(_)
WellEscaped(s) ==
    IF s = << >> THEN TRUE
    ELSE IF Head(s) = Backslash THEN Len(s) >= 2 /\ WellEscaped(Tail(Tail(s)))
    ELSE Head(s) \notin {Colon, Quote, Newline} /\ WellEscaped(Tail(s))

\* C17: _sanitize_drawtext_text(t) is the character-by-character image of t under
\* backslash -> two backslashes, colon -> backslash colon, quote -> backslash quote,
\* newline -> backslash n; it holds no newline, every colon and quote in it follows an
\* escaping backslash, and no other text has the same image.
C17_SanitizeIsCharacterMap ==
    Sanitized(1) =>
        LET t == call[1].text
            out == call[1].results[1]
        IN  /\ out = Image(t)
            /\ \A k \in 1..Len(out) : out[k] # Newline
            /\ WellEscaped(out)
            /\ \A k \in 1..Len(out) : out[k] \in {Colon, Quote} => (k > 1 /\ out[k - 1] = Backslash)
            /\ Len(call[1].results) = 1 =>
                  \A u \in Texts : _sanitize_drawtext_text(u) = out => u = t

C17_Witness ==
    /\ Sanitized(1)
    /\ call[1].text = <<Backslash, Colon, Newline>>
    /\ call[1].results[1] = <<Backslash, Backslash, Backslash, Colon, Backslash, "n">>

\* an overlay of the given types that got past the schema and the lookup of the Video,
\* with an existing asset and a valid position and time window
MediaOverlay(i, types) ==
    /\ inv[i].op = "overlay"
    /\ inv[i].entry \in {"task", "endpoint"}
    /\ ~(inv[i].calls = 0 /\ inv[i].fault \in {"schema", "store", "not_found"})
    /\ inv[i].req[1].overlay_type \in types
    /\ inv[i].req[1].content \in Assets
    /\ _validate_position(inv[i].req[1].position_x, inv[i].req[1].position_y) = "ok"
    /\ _validate_time_range(inv[i].req[1].start_time, inv[i].req[1].end_time) = "ok"

MediaOverlayRuns(types) ==
    \A i \in Slots :
        MediaOverlay(i, types) =>
            /\ inv[i].fault # "validation"
            /\ inv[i].calls = 1
            /\ (Done(i) /\ inv[i].fault = "none") =>
                  (Successful(i) /\ Cardinality(RecordsBy(i)) = 1)

\* C18 (as claimed): an image or video overlay with an existing asset and a valid
\* position and time window is not rejected: the overlay transform is invoked, and when
\* nothing fails the invocation succeeds with one record.
C18_ImageAndVideoOverlaysRun == MediaOverlayRuns({"image", "video"})

\* what the code does: the same holds of image overlays
ImageOverlaysRun == MediaOverlayRuns({"image"})

\* what can go wrong in the transform: its validation, the tool, the output file
TransformFaults == {"validation", "CalledProcessError", "TimeoutExpired", "output_missing"}

\* C19 (as claimed): when the status query reports a task as SUCCESS with successful
\* true, the result names an existing ProcessedVideo record; a task in which something
\* failed is never reported with successful true.
C19_SuccessfulMeansRecorded ==
    \A i \in Slots :
        IsTask(i) =>
            LET payload == celery_status(AsyncResult(i))
            IN  /\ (payload.state = "SUCCESS" /\ payload.successful = Some(TRUE)) =>
                      /\ payload.result[1].status = "completed"
                      /\ \E k \in 1..Len(processed) :
                            processed[k].id = payload.result[1].processed_video_id
                /\ inv[i].fault \in TransformFaults => payload.successful # Some(TRUE)

\* C20: the status query shows no result and no successful flag for a task that has not
\* ended (pending or started), and shows the outcome of the task and a successful flag
\* once it has ended.
C20_ResultOnlyWhenTerminal ==
    /\ \A state \in {"PENDING", "STARTED"} :
          LET payload == celery_status([state |-> state, result |-> None])
          IN  payload.result = None /\ payload.successful = None
    /\ \A i \in Slots :
          IsTask(i) =>
              LET payload == celery_status(AsyncResult(i))
              IN  IF Done(i)
                  THEN /\ payload.state \in {"SUCCESS", "FAILURE"}
                       /\ payload.result = Some(Out(i))
                       /\ payload.successful # None
                  ELSE /\ payload.result = None
                       /\ payload.successful = None

C20_Witness ==
    \E i \in Slots :
        /\ IsTask(i) /\ Done(i) /\ Out(i).status = "completed"
        /\ celery_status(AsyncResult(i)).result = Some(Out(i))
        /\ celery_status(AsyncResult(i)).successful = Some(TRUE)

FilesWrittenBy(i) == {p \in DOMAIN files : i \in files[p].writers}

C22_VideoRecordHasItsFile ==
    /\ \A k \in 1..Len(videos) : videos[k].file_path \in DOMAIN uploads
    /\ (call # None /\ call[1].fn = "upload_video" /\ call[1].status # "200") =>
          /\ call[1].file_path \notin DOMAIN uploads
          /\ \A k \in 1..Len(videos) : videos[k].file_path # call[1].file_path


\* C23: every transform hands the external tool a finite timeout: an invocation that
\* waits for the tool always has a timeout after which the tool is killed, so the
\* wait ends
C23_EveryToolRunHasTimeout ==
    \A i \in Slots : inv[i].pc = "tool" => timeout_s(inv[i].op) # None

\* an overlay request the text and image overlay operations must refuse
InvalidOverlay(req) ==
    /\ req.overlay_type \in {"text", "image"}
    /\ \/ req.position_x < 0
       \/ req.position_y < 0
       \/ req.end_time # None /\ req.end_time[1] <= req.start_time
       \/ req.overlay_type = "text" /\ req.font_size # None /\ req.font_size[1] <= 0

\* the invocation got as far as the overlay operation with this request
ReachedOverlay(i) ==
    /\ inv[i].op = "overlay"
    /\ inv[i].pc # "idle"
    /\ inv[i].fault \notin {"schema", "store", "not_found", "asset_not_found"}

\* C24: a text or image overlay with a negative position coordinate, an end time not
\* greater than the start time, or (text) a font size <= 0 ends with a ValueError,
\* without the tool having been invoked and without a ProcessedVideo record
C24_InvalidOverlayRefused ==
    \A i \in Slots :
        (ReachedOverlay(i) /\ InvalidOverlay(inv[i].req[1])) =>
            /\ Done(i)
            /\ inv[i].fault = "validation"
            /\ Out(i).error = "ValueError"
            /\ Out(i).status \in {"error", "raised"}
            /\ inv[i].calls = 0
            /\ inv[i].tool = None
            /\ RecordsBy(i) = {}

C24_Witness ==
    \E i \in Slots :
        /\ ReachedOverlay(i)
        /\ inv[i].entry = "helper"
        /\ inv[i].req[1].overlay_type = "text"
        /\ inv[i].req[1].position_x >= 0
        /\ inv[i].req[1].position_y >= 0
        /\ inv[i].req[1].font_size = Some(0)
        /\ Done(i)
        /\ Out(i) = HelperRaise("ValueError")

\* C25: a quality conversion with a label outside {1080p, 720p, 480p} ends with a
\* ValueError, no tool invocation and no ProcessedVideo record; with a label inside
\* the set the tool is invoked with the scale and the bitrate of that label:
\* 1080p 1920x1080 at 5M, 720p 1280x720 at 2.5M, 480p 854x480 at 1M
C25_QualityLabels ==
    \A i \in Slots :
        (inv[i].op = "quality" /\ inv[i].pc # "idle") =>
            LET quality == inv[i].req[1].quality
            IN  /\ quality \notin {"1080p", "720p", "480p"} =>
                      /\ Done(i)
                      /\ inv[i].fault = "validation"
                      /\ Out(i).error = "ValueError"
                      /\ inv[i].calls = 0
                      /\ inv[i].cmd = None
                      /\ RecordsBy(i) = {}
                /\ quality \in {"1080p", "720p", "480p"} =>
                      /\ inv[i].calls = 1
                      /\ inv[i].cmd # None
                      /\ quality = "1080p" =>
                            inv[i].cmd[1] = [scale |-> <<1920, 1080>>, bitrate |-> "5M"]
                      /\ quality = "720p" =>
                            inv[i].cmd[1] = [scale |-> <<1280, 720>>, bitrate |-> "2.5M"]
                      /\ quality = "480p" =>
                            inv[i].cmd[1] = [scale |-> <<854, 480>>, bitrate |-> "1M"]

C25_WitnessKnownLabel ==
    \E i \in Slots :
        /\ inv[i].op = "quality"
        /\ inv[i].req[1].quality = "480p"
        /\ Done(i)
        /\ inv[i].cmd # None
        /\ RecordsBy(i) # {}

C25_Witness ==
    \E i \in Slots :
        /\ inv[i].op = "quality"
        /\ inv[i].req[1].quality = "4k"
        /\ Done(i)
        /\ Out(i) = HelperRaise("ValueError")

\* C26: whatever processed directory is configured, every file the tool writes and
\* the file_path of every ProcessedVideo record lie in the configured processed
\* directory
C26_OutputsInProcessedDir ==
    /\ \A p \in DOMAIN files : p.dir = settings.processed_dir
    /\ \A k \in 1..Len(processed) : processed[k].file_path.dir = settings.processed_dir

\* C27: a synchronous endpoint that answers 200 returns the ProcessedVideo record
\* that this same request created, whatever other requests and tasks record for the
\* same Video at the same time
C27_ResponseIsOwnRecord ==
    \A i \in Slots :
        (inv[i].entry = "endpoint" /\ Done(i) /\ Out(i).status = "200") =>
            \E k \in RecordsBy(i) : processed[k].id = Out(i).processed_video_id

\* the request with the defaults the overlay paths are to apply: font size 24
WithOverlayDefaults(req) == [req EXCEPT !.font_size = IF @ = None THEN Some(24) ELSE @]

\* task i and endpoint request j were handed the same schema-accepted overlay
\* request for the same Video, and neither met a failure of the store or the tool
SameOverlaySubmitted(i, j) ==
    /\ inv[i].entry = "task" /\ inv[i].op = "overlay"
    /\ inv[j].entry = "endpoint" /\ inv[j].op = "overlay"
    /\ inv[i].video_id = inv[j].video_id
    /\ OverlayRequest_valid(inv[i].req[1])
    /\ inv[j].req[1] = WithOverlayDefaults(inv[i].req[1])
    /\ Done(i) /\ inv[i].fault \in {"none", "validation"}
    /\ Done(j) /\ inv[j].fault \in {"none", "validation"}

\* C28: the same schema-accepted overlay request ends 'completed' through the task
\* exactly when the synchronous endpoint answers 200, and then both recorded the
\* same processing_config (with the default font size 24 applied)
C28_OverlayPathsEquivalent ==
    \A i, j \in Slots :
        SameOverlaySubmitted(i, j) =>
            /\ Out(i).status = "completed" <=> Out(j).status = "200"
            /\ \A k \in RecordsBy(i), m \in RecordsBy(j) :
                  processed[k].processing_config = processed[m].processing_config

\* C29: a trim task whose request the synchronous endpoint rejects (video not found,
\* start >= end, start < 0, end <= 0, end beyond the known duration) ends with an
\* error outcome and no ProcessedVideo record, and a request the endpoint accepts
\* is not refused by the task's validation
C29_TrimPathsRejectTheSame ==
    \A i \in Slots :
        (inv[i].entry = "task" /\ inv[i].op = "trim" /\ Done(i) /\ inv[i].fault # "store") =>
            LET answer == trim_video_verdict(inv[i].video_id, inv[i].req[1])
            IN  /\ answer # "ok" => Out(i).status = "error" /\ RecordsBy(i) = {}
                /\ answer = "ok" => inv[i].fault # "validation"

============================================================================
